---- MODULE Spec2Model ----
(***************************************************************************)
(* A model of the microbench crate: the geometric iteration sequence, the  *)
(* sampling loop with its three measurement strategies, the OLS analysis   *)
(* and the reporting policy of bench_impl.                                 *)
(*                                                                         *)
(* Numbers are modelled exactly.  A u64 is an arbitrary-precision natural  *)
(* (little-endian limbs) reduced to 64 bits where the code's arithmetic    *)
(* does so; an f64 is an IEEE-754 binary64 value (sign, integer mantissa,  *)
(* exponent) and every arithmetic operation rounds to nearest, ties to     *)
(* even, with gradual underflow and overflow to infinity.                  *)
(***************************************************************************)
EXTENDS Integers, Sequences, FiniteSets, TLC

(***************************************************************************)
(* Arbitrary-precision naturals.  A natural is the sequence of its limbs   *)
(* in base 2^15, least significant first, with no leading zero limb; zero  *)
(* is the empty sequence.                                                  *)
(***************************************************************************)
Base == 2^15

LimbBits == CHOOSE k \in 1..30 : 2^k = Base

Max(a, b) == IF a >= b THEN a ELSE b

Min(a, b) == IF a <= b THEN a ELSE b

Hd(a) == IF a = <<>> THEN 0 ELSE Head(a)

Tl(a) == IF a = <<>> THEN <<>> ELSE Tail(a)

Zeros(n) == [i \in 1..n |-> 0]

RECURSIVE BNorm(_)
BNorm(a) ==
  IF a = <<>> THEN <<>>
  ELSE IF a[Len(a)] = 0 THEN BNorm(SubSeq(a, 1, Len(a) - 1)) ELSE a

RECURSIVE BFromInt(_)
BFromInt(n) == IF n = 0 THEN <<>> ELSE <<n % Base>> \o BFromInt(n \div Base)

RECURSIVE BAddC(_, _, _)
BAddC(a, b, c) ==
  IF b = <<>> /\ c = 0 THEN a
  ELSE IF a = <<>> /\ c = 0 THEN b
  ELSE IF a = <<>> /\ b = <<>> THEN <<c>>
  ELSE LET x == Hd(a) + Hd(b) + c
       IN  <<x % Base>> \o BAddC(Tl(a), Tl(b), x \div Base)

BAdd(a, b) == BAddC(a, b, 0)

RECURSIVE BSubC(_, _, _)
BSubC(a, b, c) ==
  IF b = <<>> /\ c = 0 THEN a
  ELSE LET x == Hd(a) - Hd(b) - c
       IN  IF x < 0 THEN <<x + Base>> \o BSubC(Tl(a), Tl(b), 1)
           ELSE <<x>> \o BSubC(Tl(a), Tl(b), 0)

\* a - b for a >= b
BSub(a, b) == BNorm(BSubC(a, b, 0))

RECURSIVE BCmpAt(_, _, _)
BCmpAt(a, b, i) ==
  IF i = 0 THEN 0
  ELSE IF a[i] < b[i] THEN -1
  ELSE IF a[i] > b[i] THEN 1
  ELSE BCmpAt(a, b, i - 1)

\* -1, 0 or 1 as a < b, a = b or a > b
BCmp(a, b) ==
  IF Len(a) < Len(b) THEN -1
  ELSE IF Len(a) > Len(b) THEN 1
  ELSE BCmpAt(a, b, Len(a))

\* a * k + c for a small k (k < Base) and carry c
RECURSIVE BMulC(_, _, _)
BMulC(a, k, c) ==
  IF a = <<>> THEN (IF c = 0 THEN <<>> ELSE <<c>>)
  ELSE LET x == Head(a) * k + c
       IN  <<x % Base>> \o BMulC(Tail(a), k, x \div Base)

RECURSIVE BMul(_, _)
BMul(a, b) ==
  IF a = <<>> \/ b = <<>> THEN <<>>
  ELSE BAdd(BMulC(a, Head(b), 0),
            IF Tail(b) = <<>> THEN <<>> ELSE <<0>> \o BMul(a, Tail(b)))

\* a * 2^n
BShl(a, n) ==
  IF a = <<>> THEN <<>>
  ELSE Zeros(n \div LimbBits) \o BMulC(a, 2^(n % LimbBits), 0)

\* floor(a / 2^n)
BShr(a, n) ==
  LET q == n \div LimbBits
      p == 2^(n % LimbBits)
      d == IF q >= Len(a) THEN <<>> ELSE SubSeq(a, q + 1, Len(a))
  IN  BNorm([i \in 1..Len(d) |->
               (d[i] \div p)
               + (IF i < Len(d) THEN (d[i + 1] % p) * (Base \div p) ELSE 0)])

RECURSIVE SmallBitLen(_)
SmallBitLen(x) == IF x = 0 THEN 0 ELSE 1 + SmallBitLen(x \div 2)

\* the number of bits of a (0 for zero)
BBitLen(a) ==
  IF a = <<>> THEN 0 ELSE LimbBits * (Len(a) - 1) + SmallBitLen(a[Len(a)])

\* bit i of a, bit 0 the least significant
BBit(a, i) ==
  LET q == i \div LimbBits
  IN  IF q >= Len(a) THEN 0 ELSE (a[q + 1] \div 2^(i % LimbBits)) % 2

\* the low n bits of a are all zero
BLowZero(a, n) ==
  LET q == n \div LimbBits
  IN  /\ \A i \in 1..Min(q, Len(a)) : a[i] = 0
      /\ q < Len(a) => a[q + 1] % 2^(n % LimbBits) = 0

\* a mod 2^n
BLowBits(a, n) ==
  LET q == n \div LimbBits
  IN  IF q >= Len(a) THEN a
      ELSE BNorm(SubSeq(a, 1, q) \o <<a[q + 1] % 2^(n % LimbBits)>>)

\* the largest d with d * b <= r, for r < Base * b, found bit by bit from
\* the top
RECURSIVE BDigit(_, _, _, _)
BDigit(r, b, bit, d) ==
  IF bit = 0 THEN d
  ELSE IF BCmp(BMulC(b, d + bit, 0), r) <= 0
       THEN BDigit(r, b, bit \div 2, d + bit)
       ELSE BDigit(r, b, bit \div 2, d)

\* schoolbook long division: limb i of a is brought down into r, q collects
\* the quotient limbs
RECURSIVE BDivAt(_, _, _, _, _)
RECURSIVE BDivDown(_, _, _, _, _)
RECURSIVE BDivTake(_, _, _, _, _, _)
BDivAt(a, b, i, q, r) ==
  IF i = 0 THEN [q |-> BNorm(q), r |-> r]
  ELSE BDivDown(a, b, i, q, BNorm(<<a[i]>> \o r))

\* r2 is r with limb i brought down
BDivDown(a, b, i, q, r2) == BDivTake(a, b, i, q, r2, BDigit(r2, b, Base \div 2, 0))

\* d is the quotient limb of r2
BDivTake(a, b, i, q, r2, d) ==
  IF d = 0 THEN BDivAt(a, b, i - 1, <<0>> \o q, r2)
  ELSE BDivAt(a, b, i - 1, <<d>> \o q, BSub(r2, BMulC(b, d, 0)))

\* quotient and remainder of a by b, b # 0
BDivMod(a, b) == BDivAt(a, b, Len(a), <<>>, <<>>)

\* the natural written with the decimal digits ds
RECURSIVE BFromDigits(_)
BFromDigits(ds) ==
  IF ds = <<>> THEN <<>>
  ELSE BAddC(BMulC(BFromDigits(SubSeq(ds, 1, Len(ds) - 1)), 10, 0),
             <<>>, ds[Len(ds)])

RECURSIVE BPow10(_)
BPow10(k) == IF k = 0 THEN <<1>> ELSE BMulC(BPow10(k - 1), 10, 0)

(***************************************************************************)
(* IEEE-754 binary64.  A value is a record [k, s, m, e]: k is "fin", "inf" *)
(* or "nan", s the sign bit, and a finite value is (-1)^s * m * 2^e with m *)
(* a natural of exactly F64Prec bits (normal), or of fewer bits with       *)
(* e = F64EMin (subnormal), or zero (m = <<>>, e = 0).                     *)
(***************************************************************************)
F64Prec == 53

F64EMin == -1074

F64EMax == 1024

FZero(s) == [k |-> "fin", s |-> s, m |-> <<>>, e |-> 0]

FInf(s) == [k |-> "inf", s |-> s, m |-> <<>>, e |-> 0]

FNaN == [k |-> "nan", s |-> 0, m |-> <<>>, e |-> 0]

IsZero(x) == x.k = "fin" /\ x.m = <<>>

\* the finite value (-1)^s * m * 2^e, m of at most F64Prec bits: infinite
\* once it reaches 2^F64EMax
FFin(s, m, e) ==
  IF m = <<>> THEN FZero(s)
  ELSE IF e + BBitLen(m) > F64EMax THEN FInf(s)
  ELSE [k |-> "fin", s |-> s, m |-> m, e |-> e]

\* (-1)^s * m1 * 2^E for m1 of at most F64Prec + 1 bits whose lowest bit is
\* zero when it has F64Prec + 1: the carry out of a rounding up
FCarry(s, m1, E) ==
  IF BBitLen(m1) > F64Prec THEN FFin(s, BShr(m1, 1), E + 1)
  ELSE FFin(s, m1, E)

\* FRound with the sh low bits of M rounded away (sh <= 0: none are)
FRoundAt(s, M, E, sticky, sh) ==
  IF sh <= 0 THEN FFin(s, BShl(M, -sh), E + sh)
  ELSE IF /\ BBit(M, sh - 1) = 1
          /\ (sticky \/ ~BLowZero(M, sh - 1) \/ BBit(M, sh) = 1)
       THEN FCarry(s, BAddC(BShr(M, sh), <<>>, 1), E + sh)
       ELSE FFin(s, BShr(M, sh), E + sh)

\* (-1)^s * (M + f) * 2^E rounded to nearest, ties to even, where 0 <= f < 1
\* and f # 0 exactly if sticky (sticky only with M of more than F64Prec bits)
FRound(s, M, E, sticky) ==
  IF M = <<>> THEN FZero(s)
  ELSE FRoundAt(s, M, E, sticky, Max(BBitLen(M) - F64Prec, F64EMin - E))

\* (-1)^s * (qr.q + qr.r / D) * 2^E rounded, qr a quotient and remainder
FQuotient(s, qr, E) == FRound(s, qr.q, E, qr.r # <<>>)

\* FRatio with the numerator scaled by 2^k
FRatioAt(s, N, D, E, k) == FQuotient(s, BDivMod(BShl(N, k), D), E - k)

\* (-1)^s * (N / D) * 2^E rounded, N # 0 and D # 0: the quotient is taken
\* to F64Prec + 2 bits or more and the remainder is the sticky bit
FRatio(s, N, D, E) ==
  FRatioAt(s, N, D, E, Max(0, F64Prec + 2 + BBitLen(D) - BBitLen(N)))

FNeg(x) == IF x.k = "nan" THEN x ELSE [x EXCEPT !.s = 1 - x.s]

Xor(s, t) == IF s = t THEN 0 ELSE 1

\* (-1)^sa * A * 2^e0 + (-1)^sb * B * 2^e0 rounded, c the order of A and B
FAddOrdered(sa, sb, A, B, e0, c) ==
  IF sa # sb /\ c = 0 THEN FZero(0)
  ELSE FRound(IF sa = sb \/ c > 0 THEN sa ELSE sb,
              IF sa = sb THEN BAdd(A, B)
              ELSE IF c > 0 THEN BSub(A, B) ELSE BSub(B, A),
              e0, FALSE)

FAddAligned(sa, sb, A, B, e0) == FAddOrdered(sa, sb, A, B, e0, BCmp(A, B))

\* a + b
FAdd(a, b) ==
  IF a.k = "nan" \/ b.k = "nan" THEN FNaN
  ELSE IF a.k = "inf" THEN (IF b.k = "inf" /\ b.s # a.s THEN FNaN ELSE a)
  ELSE IF b.k = "inf" THEN b
  ELSE IF a.m = <<>> /\ b.m = <<>> THEN FZero(IF a.s = b.s THEN a.s ELSE 0)
  ELSE IF a.m = <<>> THEN b
  ELSE IF b.m = <<>> THEN a
  ELSE FAddAligned(a.s, b.s, BShl(a.m, a.e - Min(a.e, b.e)),
                   BShl(b.m, b.e - Min(a.e, b.e)), Min(a.e, b.e))

\* a - b
FSub(a, b) == FAdd(a, FNeg(b))

\* a * b
FMul(a, b) ==
  IF a.k = "nan" \/ b.k = "nan" THEN FNaN
  ELSE IF a.k = "inf" \/ b.k = "inf"
       THEN (IF IsZero(a) \/ IsZero(b) THEN FNaN ELSE FInf(Xor(a.s, b.s)))
  ELSE FRound(Xor(a.s, b.s), BMul(a.m, b.m), a.e + b.e, FALSE)

\* a / b
FDiv(a, b) ==
  IF a.k = "nan" \/ b.k = "nan" THEN FNaN
  ELSE IF a.k = "inf" THEN (IF b.k = "inf" THEN FNaN ELSE FInf(Xor(a.s, b.s)))
  ELSE IF b.k = "inf" THEN FZero(Xor(a.s, b.s))
  ELSE IF b.m = <<>> THEN (IF a.m = <<>> THEN FNaN ELSE FInf(Xor(a.s, b.s)))
  ELSE IF a.m = <<>> THEN FZero(Xor(a.s, b.s))
  ELSE FRatio(Xor(a.s, b.s), a.m, b.m, a.e - b.e)

\* d is less than zero
FNegative(d) == d.k # "nan" /\ d.s = 1 /\ ~IsZero(d)

\* a < b (false when either is NaN)
FLt(a, b) == a.k # "nan" /\ b.k # "nan" /\ FNegative(FSub(a, b))

\* powf(x, 2.0): the correctly rounded square
FSquare(x) == FMul(x, x)

\* `n as f64` for a u64 n: the nearest binary64
U64ToF64(n) == FRound(0, n, 0, FALSE)

U64Bits == 64

U64Max == BSub(BShl(<<1>>, U64Bits), <<1>>)

\* `x as u64`: truncation toward zero, saturating at 0 and u64::MAX, NaN to 0
F64ToU64(x) ==
  IF x.k = "nan" \/ x.s = 1 THEN <<>>
  ELSE IF x.k = "inf" THEN U64Max
  ELSE IF x.e >= 0
       THEN (IF BBitLen(x.m) + x.e > U64Bits THEN U64Max ELSE BShl(x.m, x.e))
  ELSE BShr(x.m, -x.e)

\* the nearest binary64 to (-1)^s * n / 10^scale
FDecimal(s, n, scale) ==
  IF n = <<>> THEN FZero(s) ELSE FRatio(s, n, BPow10(scale), 0)

\* the decimal literal ds / 10^scale (with its sign) as the compiler reads
\* it: the nearest binary64
FDec(s, ds, scale) == FDecimal(s, BFromDigits(ds), scale)

(***************************************************************************)
(* The statistics: Kahan summation, the mean, and the OLS fit.             *)
(***************************************************************************)

\* e, with v evaluated first.  TLC evaluates the arguments of an operator
\* only when they are used; evaluating the accumulator of a fold at every
\* step keeps the evaluation of a long fold from nesting.
Strict(v, e) == IF v = v THEN e ELSE e

\* the closure folded by kahan_sum without its correction: plain summation
KahanTNaive(sum, y, t) == <<t, FZero(0)>>

\* the closure folded by kahan_sum, from `let t = sum + y` on
KahanT(sum, y, t) == <<t, FSub(FSub(t, sum), y)>>

\* the closure folded by kahan_sum, from `let y = f - correction` on
KahanY(sum, y) == KahanT(sum, y, FAdd(sum, y))

\* the closure folded by kahan_sum: acc = <<sum, correction>>, f the item
KahanStep(acc, f) == KahanY(acc[1], FSub(f, acc[2]))

\* Iterator::fold from item i of xs on
RECURSIVE KahanFold(_, _, _)
KahanFold(xs, i, acc) ==
  IF i > Len(xs) THEN acc
  ELSE Strict(acc, KahanFold(xs, i + 1, KahanStep(acc, xs[i])))

\* statistics.rs, Kahan::kahan_sum
kahan_sum(xs) == KahanFold(xs, 1, <<FZero(0), FZero(0)>>)[1]

\* statistics.rs, Kahan::kahan_mean
kahan_mean(xs) == FDiv(kahan_sum(xs), U64ToF64(BFromInt(Len(xs))))

\* utility.rs, Statistics::kahan_sum
Statistics_kahan_sum(xs) == KahanFold(xs, 1, <<FZero(0), FZero(0)>>)[1]

\* utility.rs, Statistics::mean
Statistics_mean(xs) ==
  FDiv(Statistics_kahan_sum(xs), U64ToF64(BFromInt(Len(xs))))

\* statistics.rs, Model::new from `let numerator` of the goodness of fit on
ModelR2(data, ymean, alpha, beta) ==
  [alpha |-> alpha, beta |-> beta,
   r2 |-> FDiv(kahan_sum([i \in DOMAIN data |->
                 FSquare(FSub(FAdd(FMul(beta, data[i][1]), alpha), ymean))]),
               kahan_sum([i \in DOMAIN data |->
                 FSquare(FSub(data[i][2], ymean))]))]

\* statistics.rs, Model::new from `let alpha` on
ModelAlpha(data, xmean, ymean, beta) ==
  ModelR2(data, ymean, FSub(ymean, FMul(beta, xmean)), beta)

\* statistics.rs, Model::new from `let numerator` of the regression on
ModelBeta(data, xmean, ymean) ==
  ModelAlpha(data, xmean, ymean,
    FDiv(kahan_sum([i \in DOMAIN data |->
           FMul(FSub(data[i][1], xmean), FSub(data[i][2], ymean))]),
         kahan_sum([i \in DOMAIN data |->
           FSquare(FSub(data[i][1], xmean))])))

\* statistics.rs, Model::new: data is a sequence of pairs <<x, y>> of f64
Model_new(data) ==
  ModelBeta(data, kahan_mean([i \in DOMAIN data |-> data[i][1]]),
                  kahan_mean([i \in DOMAIN data |-> data[i][2]]))

\* lib.rs, analyze from `let numerator` of the goodness of fit on
AnalyzeR2(xs, ys, ymean, alpha, beta) ==
  [alpha |-> alpha, beta |-> beta,
   r2 |-> FDiv(Statistics_kahan_sum([i \in DOMAIN xs |->
                 FSquare(FSub(FAdd(FMul(beta, xs[i]), alpha), ymean))]),
               Statistics_kahan_sum([i \in DOMAIN ys |->
                 FSquare(FSub(ys[i], ymean))]))]

\* lib.rs, analyze with `let alpha = ymean - beta`
AnalyzeAlphaNoMean(xs, ys, xmean, ymean, beta) ==
  AnalyzeR2(xs, ys, ymean, FSub(ymean, beta), beta)

\* lib.rs, analyze from `let alpha` on
AnalyzeAlpha(xs, ys, xmean, ymean, beta) ==
  AnalyzeR2(xs, ys, ymean, FSub(ymean, FMul(beta, xmean)), beta)

\* lib.rs, analyze from `let numerator` of the regression on
AnalyzeBeta(xs, ys, xmean, ymean) ==
  AnalyzeAlpha(xs, ys, xmean, ymean,
    FDiv(Statistics_kahan_sum([i \in DOMAIN xs |->
           FMul(FSub(xs[i], xmean), FSub(ys[i], ymean))]),
         Statistics_kahan_sum([i \in DOMAIN xs |->
           FSquare(FSub(xs[i], xmean))])))

\* lib.rs, analyze with xs[i] = `m.iterations as f64` and
\* ys[i] = `m.elapsed.0 as f64` of measurement i
AnalyzeOf(xs, ys) == AnalyzeBeta(xs, ys, Statistics_mean(xs), Statistics_mean(ys))

\* lib.rs, analyze: measurements is a sequence of Measurement records,
\* iterations a u64 and elapsed a number of nanoseconds
analyze(measurements) ==
  AnalyzeOf([i \in DOMAIN measurements |-> U64ToF64(measurements[i].iterations)],
            [i \in DOMAIN measurements |->
               U64ToF64(BFromInt(measurements[i].elapsed))])

(***************************************************************************)
(* The program state.                                                      *)
(***************************************************************************)
VARIABLES
  options,          \* Options: [factor, memory, time]
  strategy,         \* which of measure, measure_drop, measure_setup runs
  size,             \* mem::size_of::<T>() (measure_drop) or ::<I>() (measure_setup)
  pc,               \* the control point
  now,              \* the clock (Instant::now()), in nanoseconds
  bench_stopwatch,  \* the start of bench_impl's stopwatch
  stopwatch,        \* the start of measure_impl's stopwatch
  sequence,         \* the GeometricSequence: [current, factor]
  start,            \* the local `start` of GeometricSequence::next
  iterations,       \* the iteration count of the current round
  round,            \* the current round of the strategy closure
  measurements,     \* the Vec<Measurement> of measure_impl
  report,           \* what bench_impl printed
  emitted,          \* history: the values returned by sequence.next()
  seq_start,        \* the `start` argument of GeometricSequence::new
  stat              \* the input handed to the statistics functions

\* what Init chooses and no action changes
config == <<options, strategy, size, seq_start, stat>>

vars == <<config, pc, now, bench_stopwatch, stopwatch, sequence, start,
          iterations, round, measurements, report, emitted>>

(***************************************************************************)
(* Bounds of the model and the inputs drawn in Init.                       *)
(***************************************************************************)
\* the most rounds measure_impl is followed for
MaxRounds == 3

\* the time budgets (Options.time), in nanoseconds
Times == {0, 1, 3}

\* the nanoseconds the clock advances by while a loop of a round runs
Ticks == {0, 1}

\* the most values a stand-alone sequence is asked for
MaxEmit == 4

F1_01 == FDec(0, <<1, 0, 1>>, 2)

F2_0 == FDec(0, <<2>>, 0)

F2p61 == U64ToF64(BShl(<<1>>, 61))

F1e20 == FDecimal(0, BPow10(20), 0)

\* Options::default().factor, and factors that grow fast
Factors == {F1_01, F2_0, F2p61, F1e20}

\* Bytes::mebibytes(512), the default of Options.memory
DefaultMemory == BFromInt(512 * 1024 * 1024)

Memories == {BFromInt(16), DefaultMemory}

Sizes == {0, 8}

\* a round of a strategy closure before it does anything: sw the start of
\* its stopwatch and timing whether it runs unread, setups and calls the
\* numbers of calls of setup and of f, held the number of values kept in the
\* Vec and dropped the number destroyed, elapsed and result what it returns.
\* History: timed and untimed are the kinds of work done with the stopwatch
\* running and not, took the nanoseconds the calls of f took.
NoRound == [sw |-> 0, timing |-> FALSE, setups |-> <<>>, calls |-> <<>>,
            held |-> <<>>, dropped |-> <<>>, elapsed |-> 0, result |-> "none",
            timed |-> {}, untimed |-> {}, took |-> 0]

\* the round r after work of the kind k
Did(r, k) ==
  IF r.timing THEN [r EXCEPT !.timed = @ \cup {k}]
  ELSE [r EXCEPT !.untimed = @ \cup {k}]

Strategies == {"measure", "measure_drop", "measure_setup"}

(***************************************************************************)
(* GeometricSequence (utility.rs).                                         *)
(***************************************************************************)
\* GeometricSequence::new
GeometricSequence_new(s, factor) == [current |-> U64ToF64(s), factor |-> factor]

\* next, line 75: let start = self.current as u64
NextEnter ==
  /\ pc = "next"
  /\ start' = F64ToU64(sequence.current)
  /\ pc' = "next_while"
  /\ UNCHANGED <<config, now, bench_stopwatch, stopwatch, sequence, iterations,
                 round, measurements, report, emitted>>

\* next, line 76: one turn of the while loop
NextMul ==
  /\ pc = "next_while"
  /\ F64ToU64(sequence.current) = start
  /\ sequence' = [sequence EXCEPT !.current = FMul(@, sequence.factor)]
  /\ UNCHANGED <<config, pc, now, bench_stopwatch, stopwatch, start, iterations,
                 round, measurements, report, emitted>>

\* next, lines 76-77: the loop ends and Some(start) is returned to the caller,
\* which goes on at ret
NextReturn(ret) ==
  /\ pc = "next_while"
  /\ F64ToU64(sequence.current) # start
  /\ iterations' = start
  /\ emitted' = Append(emitted, start)
  /\ pc' = ret
  /\ UNCHANGED <<config, now, bench_stopwatch, stopwatch, sequence, start,
                 round, measurements, report>>

(***************************************************************************)
(* bench_impl and measure_impl (lib.rs).                                   *)
(***************************************************************************)
\* bench_impl, lines 208-209: the stopwatch is started and f() is called
BenchImplEnter ==
  /\ pc = "bench_impl"
  /\ bench_stopwatch' = now
  /\ pc' = "measure_impl"
  /\ UNCHANGED <<config, now, stopwatch, sequence, start, iterations, round,
                 measurements, report, emitted>>

\* measure_impl, lines 223-225
MeasureImplEnter ==
  /\ pc = "measure_impl"
  /\ measurements' = <<>>
  /\ sequence' = GeometricSequence_new(<<1>>, options.factor)
  /\ stopwatch' = now
  /\ pc' = "loop"
  /\ UNCHANGED <<config, now, bench_stopwatch, start, iterations, round,
                 report, emitted>>

\* Stopwatch::elapsed
Elapsed(sw) == now - sw

\* measure_impl, line 226: the loop condition
LoopCondition == Elapsed(stopwatch) < options.time

\* measure_impl, lines 226-227: the loop goes on and calls sequence.next()
LoopEnter ==
  /\ pc = "loop"
  /\ LoopCondition
  /\ Len(emitted) < MaxRounds
  /\ pc' = "next"
  /\ round' = NoRound
  /\ UNCHANGED <<config, now, bench_stopwatch, stopwatch, sequence, start,
                 iterations, measurements, report, emitted>>

\* measure_impl, lines 226 and 234: the loop ends on the time budget
LoopExit ==
  /\ pc = "loop"
  /\ ~LoopCondition
  /\ pc' = "return"
  /\ UNCHANGED <<config, now, bench_stopwatch, stopwatch, sequence, start,
                 iterations, round, measurements, report, emitted>>

\* measure_impl, lines 228-229: f(iterations) was Some(elapsed)
MeasureImplSome ==
  /\ pc = "match"
  /\ round.result = "some"
  /\ measurements' = Append(measurements,
       [iterations |-> iterations, elapsed |-> round.elapsed])
  /\ pc' = "loop"
  /\ UNCHANGED <<config, now, bench_stopwatch, stopwatch, sequence, start,
                 iterations, round, report, emitted>>

\* measure_impl, lines 230-232, with `continue` for `break`
MeasureImplNoneRetry ==
  /\ pc = "match"
  /\ round.result = "none"
  /\ pc' = "loop"
  /\ UNCHANGED <<config, now, bench_stopwatch, stopwatch, sequence, start,
                 iterations, round, measurements, report, emitted>>

\* measure_impl, lines 230-232 and 234: f(iterations) was None
MeasureImplNone ==
  /\ pc = "match"
  /\ round.result = "none"
  /\ pc' = "return"
  /\ UNCHANGED <<config, now, bench_stopwatch, stopwatch, sequence, start,
                 iterations, round, measurements, report, emitted>>

\* bench_impl, line 212, with `measurements.len() < 1`
NotEnoughOne(ms, analysis) == Len(ms) < 1 \/ FLt(analysis.beta, FZero(0))

\* bench_impl, line 212, with `analysis.beta.0 <= 0.0`
NotEnoughNonPositive(ms, analysis) ==
  Len(ms) < 2 \/ FLt(analysis.beta, FZero(0)) \/ IsZero(analysis.beta)

\* bench_impl, line 212: the condition of "not enough measurements"
NotEnough(ms, analysis) == Len(ms) < 2 \/ FLt(analysis.beta, FZero(0))

\* bench_impl, lines 211-217: what is printed, total the elapsed time of the
\* prefix.  History: analysis is the local `analysis`.
Report(ms, analysis, total) ==
  IF NotEnough(ms, analysis)
  THEN [kind |-> "not enough measurements", total |-> total,
        analysis |-> analysis]
  ELSE [kind |-> "ns/iter", total |-> total, analysis |-> analysis,
        beta |-> analysis.beta, r2 |-> analysis.r2]

\* bench_impl, lines 210-217
BenchImplReport ==
  /\ pc = "return"
  /\ report' = Report(measurements, analyze(measurements),
                      Elapsed(bench_stopwatch))
  /\ pc' = "done"
  /\ UNCHANGED <<config, now, bench_stopwatch, stopwatch, sequence, start,
                 iterations, round, measurements, emitted>>

(***************************************************************************)
(* The strategy closures of measure, measure_drop and measure_setup.       *)
(***************************************************************************)
\* a u64 product overflows
Overflows(exact) == BBitLen(exact) > U64Bits

\* lines 307 and 333: options.memory < Bytes(iterations * cmp::max(1, size)),
\* the outcomes the build can produce.  The product is a u64 multiplication:
\* on overflow it panics in a build with overflow checks and wraps in one
\* without.
MemoryCheck(memory, n, sz) ==
  LET exact == BMul(n, BFromInt(Max(1, sz)))
      wrapped == IF BCmp(memory, BLowBits(exact, U64Bits)) < 0 THEN "none"
                 ELSE "proceed"
  IN  IF Overflows(exact) THEN {"panic", wrapped} ELSE {wrapped}

\* isize::MAX
ISizeMax == BSub(BShl(<<1>>, U64Bits - 1), <<1>>)

\* Vec::with_capacity(n) of elements of sz bytes panics ("capacity
\* overflow") when the buffer would exceed isize::MAX bytes
CapacityOverflow(n, sz) == BCmp(BMul(n, BFromInt(sz)), ISizeMax) > 0

\* measure, lines 289: the stopwatch is started
MeasureStart ==
  /\ pc = "call_f" /\ strategy = "measure"
  /\ round' = [round EXCEPT !.sw = now, !.timing = TRUE]
  /\ pc' = "measure_run"
  /\ UNCHANGED <<config, now, bench_stopwatch, stopwatch, sequence, start,
                 iterations, measurements, report, emitted>>

\* measure, line 290: for _ in 0..iterations { retain(f()); }, taking d
MeasureRun(d) ==
  /\ pc = "measure_run"
  /\ round' = Did([round EXCEPT !.calls = iterations, !.took = d], "call")
  /\ now' = now + d
  /\ pc' = "measure_read"
  /\ UNCHANGED <<config, bench_stopwatch, stopwatch, sequence, start,
                 iterations, measurements, report, emitted>>

\* measure, line 291: Some(stopwatch.elapsed())
MeasureRead ==
  /\ pc = "measure_read"
  /\ round' = [round EXCEPT !.elapsed = Elapsed(round.sw), !.timing = FALSE,
                            !.result = "some"]
  /\ pc' = "match"
  /\ UNCHANGED <<config, now, bench_stopwatch, stopwatch, sequence, start,
                 iterations, measurements, report, emitted>>

\* measure_drop, lines 307-309
DropCheck ==
  /\ pc = "call_f" /\ strategy = "measure_drop"
  /\ \E c \in MemoryCheck(options.memory, iterations, size) :
       \/ c = "panic" /\ pc' = "panicked" /\ round' = round
       \/ c = "none" /\ pc' = "match"
                     /\ round' = [round EXCEPT !.result = "none"]
       \/ c = "proceed" /\ pc' = "drop_alloc" /\ round' = round
  /\ UNCHANGED <<config, now, bench_stopwatch, stopwatch, sequence, start,
                 iterations, measurements, report, emitted>>

\* measure_drop, line 310: Vec::with_capacity(iterations as usize)
DropAlloc ==
  /\ pc = "drop_alloc"
  /\ pc' = IF CapacityOverflow(iterations, size) THEN "panicked"
           ELSE "drop_start"
  /\ UNCHANGED <<config, now, bench_stopwatch, stopwatch, sequence, start,
                 iterations, round, measurements, report, emitted>>

\* measure_drop, line 311
DropStart ==
  /\ pc = "drop_start"
  /\ round' = [round EXCEPT !.sw = now, !.timing = TRUE]
  /\ pc' = "drop_run"
  /\ UNCHANGED <<config, now, bench_stopwatch, stopwatch, sequence, start,
                 iterations, measurements, report, emitted>>

\* measure_drop, line 312: for _ in 0..iterations { outputs.push(f()); }
DropRun(d) ==
  /\ pc = "drop_run"
  /\ round' = Did([round EXCEPT !.calls = iterations, !.held = iterations,
                                !.took = d], "call")
  /\ now' = now + d
  /\ pc' = "drop_read"
  /\ UNCHANGED <<config, bench_stopwatch, stopwatch, sequence, start,
                 iterations, measurements, report, emitted>>

\* measure_drop with line 313 after line 314: the elapsed time is read
\* after the drop
DropReadLate ==
  /\ pc = "drop_read"
  /\ pc' = "drop_drop"
  /\ UNCHANGED <<config, now, bench_stopwatch, stopwatch, sequence, start,
                 iterations, round, measurements, report, emitted>>

\* measure_drop, line 313: let elapsed = stopwatch.elapsed()
DropRead ==
  /\ pc = "drop_read"
  /\ round' = [round EXCEPT !.elapsed = Elapsed(round.sw), !.timing = FALSE]
  /\ pc' = "drop_drop"
  /\ UNCHANGED <<config, now, bench_stopwatch, stopwatch, sequence, start,
                 iterations, measurements, report, emitted>>

\* measure_drop, lines 314-315: mem::drop(outputs), taking d; Some(elapsed)
DropDrop(d) ==
  /\ pc = "drop_drop"
  /\ round' = Did([round EXCEPT !.dropped = round.held, !.held = <<>>,
                                !.result = "some"], "drop")
  /\ now' = now + d
  /\ pc' = "match"
  /\ UNCHANGED <<config, bench_stopwatch, stopwatch, sequence, start,
                 iterations, measurements, report, emitted>>

\* measure_setup, lines 333-335
SetupCheck ==
  /\ pc = "call_f" /\ strategy = "measure_setup"
  /\ \E c \in MemoryCheck(options.memory, iterations, size) :
       \/ c = "panic" /\ pc' = "panicked" /\ round' = round
       \/ c = "none" /\ pc' = "match"
                     /\ round' = [round EXCEPT !.result = "none"]
       \/ c = "proceed" /\ pc' = "setup_build" /\ round' = round
  /\ UNCHANGED <<config, now, bench_stopwatch, stopwatch, sequence, start,
                 iterations, measurements, report, emitted>>

\* measure_setup, line 336: the inputs are collected into a Vec of
\* `iterations` elements (the size hint of the range) by calling setup for
\* each, taking d
SetupBuild(d) ==
  /\ pc = "setup_build"
  /\ IF CapacityOverflow(iterations, size)
     THEN pc' = "panicked" /\ UNCHANGED <<round, now>>
     ELSE /\ round' = Did([round EXCEPT !.setups = iterations,
                                        !.held = iterations], "setup")
          /\ now' = now + d
          /\ pc' = "setup_start"
  /\ UNCHANGED <<config, bench_stopwatch, stopwatch, sequence, start,
                 iterations, measurements, report, emitted>>

\* measure_setup, line 337
SetupStart ==
  /\ pc = "setup_start"
  /\ round' = [round EXCEPT !.sw = now, !.timing = TRUE]
  /\ pc' = "setup_run"
  /\ UNCHANGED <<config, now, bench_stopwatch, stopwatch, sequence, start,
                 iterations, measurements, report, emitted>>

\* measure_setup, line 338: for input in inputs { retain(f(input)); }
SetupRun(d) ==
  /\ pc = "setup_run"
  /\ round' = Did([round EXCEPT !.calls = round.held, !.held = <<>>,
                                !.took = d], "call")
  /\ now' = now + d
  /\ pc' = "setup_read"
  /\ UNCHANGED <<config, bench_stopwatch, stopwatch, sequence, start,
                 iterations, measurements, report, emitted>>

\* measure_setup, line 339: Some(stopwatch.elapsed())
SetupRead ==
  /\ pc = "setup_read"
  /\ round' = [round EXCEPT !.elapsed = Elapsed(round.sw), !.timing = FALSE,
                            !.result = "some"]
  /\ pc' = "match"
  /\ UNCHANGED <<config, now, bench_stopwatch, stopwatch, sequence, start,
                 iterations, measurements, report, emitted>>

(***************************************************************************)
(* The specification of a benchmark run: bench, bench_drop or bench_setup  *)
(* with any of the options.                                                *)
(***************************************************************************)
Init ==
  /\ options \in [factor : Factors, memory : Memories, time : Times]
  /\ strategy \in Strategies
  /\ size \in Sizes
  /\ strategy = "measure" => size = 0 /\ options.memory = DefaultMemory
  /\ pc = "bench_impl"
  /\ now = 0
  /\ bench_stopwatch = 0
  /\ stopwatch = 0
  /\ sequence = GeometricSequence_new(<<1>>, options.factor)
  /\ start = <<>>
  /\ iterations = <<>>
  /\ round = NoRound
  /\ measurements = <<>>
  /\ report = [kind |-> "none"]
  /\ emitted = <<>>
  /\ seq_start = <<1>>
  /\ stat = <<>>

\* the steps of a run in which a timed region takes lo nanoseconds or more
Run(lo) ==
  \/ BenchImplEnter
  \/ MeasureImplEnter
  \/ LoopEnter
  \/ LoopExit
  \/ NextEnter
  \/ NextMul
  \/ NextReturn("call_f")
  \/ MeasureStart
  \/ \E d \in {d \in Ticks : d >= lo} : MeasureRun(d)
  \/ MeasureRead
  \/ DropCheck
  \/ DropAlloc
  \/ DropStart
  \/ \E d \in {d \in Ticks : d >= lo} : DropRun(d)
  \/ DropRead
  \/ \E d \in Ticks : DropDrop(d)
  \/ SetupCheck
  \/ \E d \in Ticks : SetupBuild(d)
  \/ SetupStart
  \/ \E d \in {d \in Ticks : d >= lo} : SetupRun(d)
  \/ SetupRead
  \/ MeasureImplSome
  \/ MeasureImplNone
  \/ BenchImplReport

Next == Run(0)

Spec == Init /\ [][Next]_vars

\* the runs in which every timed region takes a nanosecond or more
TickSpec == Init /\ [][Run(1)]_vars

(***************************************************************************)
(* A GeometricSequence on its own: new, then next again and again.         *)
(***************************************************************************)
\* the `start` arguments: 1, 3 and 2^53 + 1
Starts == {<<1>>, <<3>>, BAddC(BShl(<<1>>, F64Prec), <<>>, 1)}

SeqInit ==
  /\ options \in [factor : Factors, memory : {DefaultMemory}, time : {0}]
  /\ strategy = "measure"
  /\ size = 0
  /\ seq_start \in Starts
  /\ stat = <<>>
  /\ pc = "new"
  /\ now = 0
  /\ bench_stopwatch = 0
  /\ stopwatch = 0
  /\ sequence = [current |-> FZero(0), factor |-> options.factor]
  /\ start = <<>>
  /\ iterations = <<>>
  /\ round = NoRound
  /\ measurements = <<>>
  /\ report = [kind |-> "none"]
  /\ emitted = <<>>

\* GeometricSequence::new(seq_start, factor)
SeqNew ==
  /\ pc = "new"
  /\ sequence' = GeometricSequence_new(seq_start, options.factor)
  /\ pc' = "idle"
  /\ UNCHANGED <<config, now, bench_stopwatch, stopwatch, start, iterations,
                 round, measurements, report, emitted>>

\* the owner of the sequence calls next()
SeqCall ==
  /\ pc = "idle"
  /\ Len(emitted) < MaxEmit
  /\ pc' = "next"
  /\ UNCHANGED <<config, now, bench_stopwatch, stopwatch, sequence, start,
                 iterations, round, measurements, report, emitted>>

SeqNext ==
  \/ SeqNew
  \/ SeqCall
  \/ NextEnter
  \/ NextMul
  \/ NextReturn("idle")

SeqSpec == SeqInit /\ [][SeqNext]_vars

(***************************************************************************)
(* The statistics functions on their own: the inputs are drawn in StatInit *)
(* and one action applies the functions to them.                           *)
(***************************************************************************)
\* the longest input drawn (the data of the tests apart)
MaxLen == 3

\* the f64 nearest to n / 100
Hundredths(n) == FDecimal(0, BFromInt(n), 2)

\* test_kahan: [10000.0, 3.14159, 2.71828]
TestKahan == <<FDecimal(0, BFromInt(10000), 0), FDecimal(0, BFromInt(314159), 5),
               FDecimal(0, BFromInt(271828), 5)>>

\* test_model: the 15 points
TestModel ==
  << <<Hundredths(147), Hundredths(5221)>>, <<Hundredths(150), Hundredths(5312)>>,
     <<Hundredths(152), Hundredths(5448)>>, <<Hundredths(155), Hundredths(5584)>>,
     <<Hundredths(157), Hundredths(5720)>>, <<Hundredths(160), Hundredths(5857)>>,
     <<Hundredths(163), Hundredths(5993)>>, <<Hundredths(165), Hundredths(6129)>>,
     <<Hundredths(168), Hundredths(6311)>>, <<Hundredths(170), Hundredths(6447)>>,
     <<Hundredths(173), Hundredths(6628)>>, <<Hundredths(175), Hundredths(6810)>>,
     <<Hundredths(178), Hundredths(6992)>>, <<Hundredths(180), Hundredths(7219)>>,
     <<Hundredths(183), Hundredths(7446)>> >>

F2p60 == U64ToF64(BShl(<<1>>, 60))

\* the numbers summed: those of test_kahan, and 1 with 2^60 and -2^60
Numbers == {TestKahan[1], TestKahan[2], TestKahan[3],
            U64ToF64(<<1>>), F2p60, FNeg(F2p60)}

\* the Measurements analysed
Samples == {[iterations |-> <<1>>, elapsed |-> 0],
            [iterations |-> <<2>>, elapsed |-> 1],
            [iterations |-> <<2>>, elapsed |-> 3],
            [iterations |-> <<3>>, elapsed |-> 1]}

\* the sequences over S of length n or less
SeqsUpTo(S, n) == UNION {[1..k -> S] : k \in 0..n}

\* the (f64, f64) pairs of measurements: `m.iterations as f64` and
\* `m.elapsed.0 as f64`
Pairs(ms) ==
  [i \in DOMAIN ms |->
     <<U64ToF64(ms[i].iterations), U64ToF64(BFromInt(ms[i].elapsed))>>]

StatInit ==
  /\ stat \in {[kind |-> "numbers", input |-> xs] :
                 xs \in SeqsUpTo(Numbers, MaxLen)}
              \cup {[kind |-> "measurements", input |-> ms] :
                      ms \in SeqsUpTo(Samples, MaxLen)}
              \cup {[kind |-> "data", input |-> TestModel]}
  /\ options = [factor |-> F1_01, memory |-> DefaultMemory, time |-> 0]
  /\ strategy = "measure"
  /\ size = 0
  /\ seq_start = <<1>>
  /\ pc = "stat"
  /\ now = 0
  /\ bench_stopwatch = 0
  /\ stopwatch = 0
  /\ sequence = GeometricSequence_new(<<1>>, options.factor)
  /\ start = <<>>
  /\ iterations = <<>>
  /\ round = NoRound
  /\ measurements = <<>>
  /\ report = [kind |-> "none"]
  /\ emitted = <<>>

\* kahan_sum and kahan_mean (statistics.rs), kahan_sum and mean (utility.rs)
\* of the numbers
StatKahan ==
  /\ pc = "stat" /\ stat.kind = "numbers"
  /\ report' = [kind |-> "numbers",
                sum |-> kahan_sum(stat.input),
                mean |-> kahan_mean(stat.input),
                statistics_sum |-> Statistics_kahan_sum(stat.input),
                statistics_mean |-> Statistics_mean(stat.input)]
  /\ pc' = "stat_done"
  /\ UNCHANGED <<config, now, bench_stopwatch, stopwatch, sequence, start,
                 iterations, round, measurements, emitted>>

\* analyze (lib.rs) of the measurements and Model::new (statistics.rs) of
\* their pairs
StatAnalyze ==
  /\ pc = "stat" /\ stat.kind = "measurements"
  /\ report' = [kind |-> "fit", data |-> Pairs(stat.input),
                analysis |-> analyze(stat.input),
                model |-> Model_new(Pairs(stat.input))]
  /\ pc' = "stat_done"
  /\ UNCHANGED <<config, now, bench_stopwatch, stopwatch, sequence, start,
                 iterations, round, measurements, emitted>>

\* Model::new (statistics.rs) of the pairs, and analyze (lib.rs) from the
\* point where it holds the same pairs
StatModel ==
  /\ pc = "stat" /\ stat.kind = "data"
  /\ report' = [kind |-> "fit", data |-> stat.input,
                analysis |-> AnalyzeOf([i \in DOMAIN stat.input |-> stat.input[i][1]],
                                       [i \in DOMAIN stat.input |-> stat.input[i][2]]),
                model |-> Model_new(stat.input)]
  /\ pc' = "stat_done"
  /\ UNCHANGED <<config, now, bench_stopwatch, stopwatch, sequence, start,
                 iterations, round, measurements, emitted>>

StatNext ==
  \/ StatKahan
  \/ StatAnalyze
  \/ StatModel

StatSpec == StatInit /\ [][StatNext]_vars

(***************************************************************************)
(* utility::thousands and the line of bench_impl that calls it.  A String  *)
(* is the sequence of its chars.                                           *)
(***************************************************************************)
\* the char of the decimal digit d
Digit(d) == <<"0", "1", "2", "3", "4", "5", "6", "7", "8", "9">>[d + 1]

\* u64::to_string: the decimal digits of n, the most significant first
RECURSIVE u64_to_string(_)
RECURSIVE u64_to_string_of(_)
u64_to_string(n) ==
  IF BCmp(n, <<10>>) < 0 THEN <<Digit(Hd(n))>>
  ELSE u64_to_string_of(BDivMod(n, <<10>>))

\* the digits of qr.q followed by the digit qr.r
u64_to_string_of(qr) == Append(u64_to_string(qr.q), Digit(Hd(qr.r)))

\* thousands, lines 129-136: the loop over the chars of the integral part
\* in reverse, from char i down
RECURSIVE Integral(_, _, _, _, _)
Integral(chars, i, counter, integral, separator) ==
  IF i = 0 THEN integral
  ELSE IF counter = 3
       THEN Integral(chars, i - 1, 1, <<chars[i], separator>> \o integral,
                     separator)
       ELSE Integral(chars, i - 1, counter + 1, <<chars[i]>> \o integral,
                     separator)

\* f64::fract: x less its integral part, exactly
Fract(x) ==
  IF x.k # "fin" THEN FNaN
  ELSE IF x.e >= 0 THEN FZero(x.s)
  ELSE FRound(x.s, BLowBits(x.m, -x.e), x.e, FALSE)

\* N / 2^sh (sh > 0) rounded to the nearest natural, ties to even
RoundShift(N, sh) ==
  IF BBit(N, sh - 1) = 1 /\ (~BLowZero(N, sh - 1) \/ BBit(N, sh) = 1)
  THEN BAddC(BShr(N, sh), <<>>, 1)
  ELSE BShr(N, sh)

\* x * 1000 rounded to the nearest natural, ties to even, x finite and not
\* negative: the digits that `{:.3}` prints of x
Thousandths(x) ==
  IF x.e >= 0 THEN BShl(BMulC(x.m, 1000, 0), x.e)
  ELSE RoundShift(BMulC(x.m, 1000, 0), -x.e)

\* the three digits of v < 1000
Pad3(v) == <<Digit(v \div 100), Digit((v \div 10) % 10), Digit(v % 10)>>

\* the String of qr.q, a point, and the three digits of qr.r
Format3Of(qr) == u64_to_string(qr.q) \o <<".">> \o Pad3(Hd(qr.r))

\* format!("{:.3}", x) for x finite and not negative
Format3(x) == Format3Of(BDivMod(Thousandths(x), BFromInt(1000)))

\* thousands, lines 127-138, chars those of `(number as u64).to_string()`
\* and fractional the String of line 137
ThousandsOf(chars, fractional, separator) ==
  Integral(chars, Len(chars), 0, <<>>, separator)
    \o <<".">> \o SubSeq(fractional, 3, Len(fractional))

\* utility::thousands(number, separator), number finite and not negative
thousands(number, separator) ==
  ThousandsOf(u64_to_string(F64ToU64(number)), Format3(Fract(number)), separator)

\* bench_impl, line 215: let beta = utility::thousands(analysis.beta.0, '_')
BenchImplThousands ==
  /\ pc = "done"
  /\ report.kind = "ns/iter"
  /\ report' = [kind |-> "ns/iter", total |-> report.total,
                analysis |-> report.analysis, beta |-> report.beta,
                r2 |-> report.r2, text |-> thousands(report.beta, "_")]
  /\ pc' = "printed"
  /\ UNCHANGED <<config, now, bench_stopwatch, stopwatch, sequence, start,
                 iterations, round, measurements, emitted>>

\* the iteration counts and the elapsed times of the second of the two
\* Measurements that bench_impl is given, the first being (1, 0)
SlopeIterations == {BFromInt(2), BFromInt(3), BFromInt(1001), BFromInt(2501),
                    BFromInt(10001)}

SlopeElapsed == {0, 1, 2, 999, 4999, 9999, 1234567, 1000000000}

\* bench_impl at the return of f() with two Measurements
PrintInit ==
  /\ measurements \in
       {<<[iterations |-> <<1>>, elapsed |-> 0],
          [iterations |-> n, elapsed |-> t]>> :
        n \in SlopeIterations, t \in SlopeElapsed}
  /\ options = [factor |-> F1_01, memory |-> DefaultMemory, time |-> 0]
  /\ strategy = "measure"
  /\ size = 0
  /\ seq_start = <<1>>
  /\ stat = <<>>
  /\ pc = "return"
  /\ now = 0
  /\ bench_stopwatch = 0
  /\ stopwatch = 0
  /\ sequence = GeometricSequence_new(<<1>>, options.factor)
  /\ start = <<>>
  /\ iterations = <<>>
  /\ round = NoRound
  /\ report = [kind |-> "none"]
  /\ emitted = <<>>

PrintNext ==
  \/ BenchImplReport
  \/ BenchImplThousands

PrintSpec == PrintInit /\ [][PrintNext]_vars

(***************************************************************************)
(* The properties.                                                         *)
(***************************************************************************)
\* the control points inside a round of measure_drop and measure_setup
\* after the memory check let it through
ProceededPcs == {"drop_alloc", "drop_start", "drop_run", "drop_read",
                 "drop_drop", "setup_build", "setup_start", "setup_run",
                 "setup_read"}

\* the bytes that `iterations` elements take exceed options.memory
OverBudget ==
  BCmp(options.memory, BMul(iterations, BFromInt(Max(1, size)))) < 0

\* C1: in measure_drop and measure_setup a round whose iterations times
\* max(1, element size) exceeds options.memory never proceeds past the
\* check: nothing is allocated, set up or called, the round yields None and
\* the loop ends by returning.
C1_OverBudgetRoundEnds ==
  strategy \in {"measure_drop", "measure_setup"} /\ OverBudget =>
    /\ pc \notin ProceededPcs
    /\ pc # "panicked"
    /\ pc \in {"match", "return", "done"} =>
         /\ round.result = "none"
         /\ round.setups = <<>> /\ round.calls = <<>> /\ round.held = <<>>
    /\ \A i \in DOMAIN measurements : measurements[i].iterations # iterations

\* C2: the values next() returns are strictly increasing and the first one
\* is the `start` the sequence was made with.
C2_IncreasingFromStart ==
  /\ \A i \in DOMAIN emitted :
       i < Len(emitted) => BCmp(emitted[i], emitted[i + 1]) < 0
  /\ emitted # <<>> => emitted[1] = seq_start

\* the control points at which a round of a strategy runs
RoundPcs == ProceededPcs \cup {"measure_run", "measure_read"}

\* C3: no round is run and no Measurement is recorded with more than 10^15
\* iterations.
C3_IterationCeiling ==
  /\ pc \in RoundPcs => BCmp(iterations, BPow10(15)) <= 0
  /\ \A i \in DOMAIN measurements :
       BCmp(measurements[i].iterations, BPow10(15)) <= 0

\* the loop of next() (line 76) neither ends nor changes anything: the
\* condition holds and the multiplication leaves `current` as it is, so
\* the same state comes back at every turn and next() never returns
Spinning ==
  /\ F64ToU64(sequence.current) = start
  /\ FMul(sequence.current, sequence.factor) = sequence.current

\* C4: when every timed region takes a nanosecond or more, measure_impl
\* comes to an end: it is never in a state that it cannot leave; a round is
\* started only with the elapsed time below options.time, and a time budget
\* of 0 yields no Measurement.
C4_Terminates ==
  /\ pc = "next_while" => ~Spinning
  /\ pc \in {"next", "next_while", "call_f"} => LoopCondition
  /\ options.time = 0 => measurements = <<>>

\* the slope `analysis.beta` bench_impl computed is negative
NegativeSlope == FLt(report.analysis.beta, FZero(0))

\* C5: bench_impl prints "not enough measurements", and no estimate, when
\* there are fewer than 2 Measurements or the slope is negative, and prints
\* the estimate (the slope and the R2 of the analysis) in every other case.
C5_ReportPolicy ==
  pc = "done" =>
    IF Len(measurements) < 2 \/ NegativeSlope
    THEN /\ report.kind = "not enough measurements"
         /\ DOMAIN report = {"kind", "total", "analysis"}
    ELSE /\ report.kind = "ns/iter"
         /\ report.beta = report.analysis.beta
         /\ report.r2 = report.analysis.r2

\* a negative slope with two Measurements or more is reported as "not
\* enough measurements"
C5_Witness ==
  /\ pc = "done"
  /\ Len(measurements) >= 2
  /\ NegativeSlope
  /\ report.kind = "not enough measurements"

\* C6 as stated: a slope that is negative or exactly zero is reported as
\* "not enough measurements" and not as an estimate.
C6_NonPositiveFlagged ==
  pc = "done" /\ (NegativeSlope \/ IsZero(report.analysis.beta)) =>
    report.kind = "not enough measurements"

\* C6: a negative slope is reported as "not enough measurements"; a slope
\* of exactly zero with two Measurements or more is reported as the
\* estimate, a slope of zero.
C6_NegativeFlaggedZeroReported ==
  pc = "done" =>
    /\ NegativeSlope => report.kind = "not enough measurements"
    /\ Len(measurements) >= 2 /\ IsZero(report.analysis.beta) =>
         report.kind = "ns/iter" /\ IsZero(report.beta)

\* two Measurements or more with a slope of exactly zero, reported as the
\* estimate
C6_Witness ==
  /\ pc = "done"
  /\ Len(measurements) >= 2
  /\ \A i \in DOMAIN measurements :
       measurements[i].elapsed = measurements[1].elapsed
  /\ IsZero(report.analysis.beta)
  /\ report.kind = "ns/iter"

\* C7: the Measurements are a prefix of the values the sequence made with
\* (1, options.factor) returned, one for each round that returned Some, in
\* order; a round that returns None adds none and ends the loop, and no
\* round follows it.
C7_PrefixNoRetry ==
  /\ sequence.factor = options.factor
  /\ emitted # <<>> => emitted[1] = <<1>>
  /\ Len(measurements) <= Len(emitted)
  /\ \A i \in DOMAIN measurements : measurements[i].iterations = emitted[i]
  /\ pc = "loop" => Len(measurements) = Len(emitted)
  /\ pc \in {"return", "done"} =>
       Len(emitted) - Len(measurements) =
         IF emitted # <<>> /\ round.result = "none" THEN 1 ELSE 0

\* the loop ended on a round that returned None after a round that
\* returned Some
C7_Witness ==
  /\ pc = "done"
  /\ round.result = "none"
  /\ Len(measurements) >= 1
  /\ Len(emitted) = Len(measurements) + 1

\* C8: in a round of measure_setup and of measure_drop no setup and no
\* drop happens with the stopwatch running and every call of f does; in
\* measure_setup the `iterations` inputs are built before the stopwatch
\* starts and f is applied once to each; in measure_drop f is called
\* `iterations` times and nothing is dropped before the elapsed time is
\* read, so the elapsed time of the round is the time the calls took.
C8_ExcludedWorkUntimed ==
  /\ round.timed \subseteq {"call"}
  /\ round.untimed \subseteq {"setup", "drop"}
  /\ pc \in {"setup_start", "setup_run"} =>
       round.setups = iterations /\ round.held = iterations
  /\ pc \in {"drop_run", "drop_read", "drop_drop"} => round.dropped = <<>>
  /\ pc = "drop_drop" => round.held = iterations /\ ~round.timing
  /\ pc = "match" /\ round.result = "some" =>
       /\ round.calls = iterations
       /\ round.held = <<>>
       /\ round.elapsed = round.took
       /\ strategy = "measure_setup" => round.setups = iterations
       /\ strategy = "measure_drop" => round.dropped = iterations

\* a round of measure_drop whose drop took a nanosecond that the elapsed
\* time of the round leaves out
C8_Witness ==
  /\ pc = "match"
  /\ strategy = "measure_drop"
  /\ round.result = "some"
  /\ round.dropped = iterations
  /\ "drop" \in round.untimed
  /\ round.elapsed = 1
  /\ now - round.sw = 2

\* the first and the second components of the pairs of data
Firsts(data) == [i \in DOMAIN data |-> data[i][1]]

Seconds(data) == [i \in DOMAIN data |-> data[i][2]]

\* C9: analyze and Model::new return the same fit of every data set:
\* beta = S((x - xm)(y - ym)) / S((x - xm)^2), alpha = ym - beta * xm and
\* r2 = S((beta * x + alpha - ym)^2) / S((y - ym)^2), xm and ym the means
\* and S the sum of kahan_sum; of the 15 points of test_model the fit is
\* alpha = -39.06195591884393, beta = 61.27218654211062 and
\* r2 = 0.989196922445796.
C9_OLSFit ==
  pc = "stat_done" /\ report.kind = "fit" =>
    LET xs == Firsts(report.data)
        ys == Seconds(report.data)
        xm == kahan_mean(xs)
        ym == kahan_mean(ys)
        m  == report.model
    IN  /\ report.analysis = m
        /\ m.beta = FDiv(kahan_sum([i \in DOMAIN xs |->
                           FMul(FSub(xs[i], xm), FSub(ys[i], ym))]),
                         kahan_sum([i \in DOMAIN xs |->
                           FSquare(FSub(xs[i], xm))]))
        /\ m.alpha = FSub(ym, FMul(m.beta, xm))
        /\ m.r2 = FDiv(kahan_sum([i \in DOMAIN xs |->
                         FSquare(FSub(FAdd(FMul(m.beta, xs[i]), m.alpha), ym))]),
                       kahan_sum([i \in DOMAIN ys |->
                         FSquare(FSub(ys[i], ym))]))
        /\ report.data = TestModel =>
             /\ m.alpha = FDec(1, <<3,9,0,6,1,9,5,5,9,1,8,8,4,3,9,3>>, 14)
             /\ m.beta = FDec(0, <<6,1,2,7,2,1,8,6,5,4,2,1,1,0,6,2>>, 14)
             /\ m.r2 = FDec(0, <<9,8,9,1,9,6,9,2,2,4,4,5,7,9,6>>, 15)

\* the fit of the 15 points of test_model, the same from both functions
C9_Witness ==
  /\ pc = "stat_done"
  /\ report.kind = "fit"
  /\ report.data = TestModel
  /\ report.analysis = report.model
  /\ report.model.beta = FDec(0, <<6,1,2,7,2,1,8,6,5,4,2,1,1,0,6,2>>, 14)

\* the least exponent of the nonzero numbers of xs from item i on, and e
RECURSIVE MinExp(_, _, _)
MinExp(xs, i, e) ==
  IF i > Len(xs) THEN e
  ELSE MinExp(xs, i + 1, IF xs[i].m = <<>> THEN e ELSE Min(e, xs[i].e))

\* |x| / 2^e0, a natural when e0 is at most the exponent of x
Scaled(x, e0) == IF x.m = <<>> THEN <<>> ELSE BShl(x.m, x.e - e0)

\* the sum of |x| / 2^e0 over the numbers x of xs of sign s, from item i on
RECURSIVE SignedSum(_, _, _, _)
SignedSum(xs, i, s, e0) ==
  IF i > Len(xs) THEN <<>>
  ELSE BAdd(IF xs[i].s = s THEN Scaled(xs[i], e0) ELSE <<>>,
            SignedSum(xs, i + 1, s, e0))

\* the reference sum: the exact sum of xs, rounded once to the nearest f64
ReferenceSum(xs) ==
  LET e0 == MinExp(xs, 1, 0)
      P  == SignedSum(xs, 1, 0, e0)
      N  == SignedSum(xs, 1, 1, e0)
  IN  IF BCmp(P, N) >= 0 THEN FRound(0, BSub(P, N), e0, FALSE)
      ELSE FRound(1, BSub(N, P), e0, FALSE)

\* |K - S| <= 2^-51 * A, for S the exact sum of xs and A the exact sum of
\* the absolute values
WithinErrorBound(xs, K) ==
  LET e0 == MinExp(Append(xs, K), 1, 0)
      P  == SignedSum(xs, 1, 0, e0)
      N  == SignedSum(xs, 1, 1, e0)
      a  == BAdd(IF K.s = 0 THEN Scaled(K, e0) ELSE <<>>, N)
      b  == BAdd(IF K.s = 1 THEN Scaled(K, e0) ELSE <<>>, P)
      err == IF BCmp(a, b) >= 0 THEN BSub(a, b) ELSE BSub(b, a)
  IN  K.k = "fin" /\ BCmp(BShl(err, 51), BAdd(P, N)) <= 0

C11_NextReturns ==
  pc = "next_while" =>
    \/ F64ToU64(sequence.current) # start
    \/ FMul(sequence.current, sequence.factor) # sequence.current

\* the digits ds with the separator between the groups of three counted
\* from the right, from digit i on
RECURSIVE Grouped(_, _, _)
Grouped(ds, i, separator) ==
  IF i > Len(ds) THEN <<>>
  ELSE (IF i > 1 /\ (Len(ds) - i + 1) % 3 = 0 THEN <<separator>> ELSE <<>>)
         \o <<ds[i]>> \o Grouped(ds, i + 1, separator)

\* x rounded to 3 decimals, written with its integral part grouped
Rendered(x, separator) ==
  LET qr == BDivMod(Thousandths(x), BFromInt(1000))
  IN  Grouped(u64_to_string(qr.q), 1, separator) \o <<".">> \o Pad3(Hd(qr.r))

\* C12: the text that thousands makes of a slope that bench_impl prints is
\* the slope rounded to 3 decimals: the integral part of the rounded
\* value, grouped in threes from the right with no leading separator, a
\* point, and the 3 decimals of the rounded value.
C12_ThousandsRendersSlope ==
  pc = "printed" => report.text = Rendered(report.beta, "_")

====
